---- MODULE Spec2Model ----
(***************************************************************************)
(* The C bindings of the BC7 encoder: src/src/dds.cpp (byte pixels) and    *)
(* src/src/bindings.cpp (float pixels).  Both translation units export the *)
(* same five entry points over one rdo_bc::rdo_bc_encoder object; they     *)
(* differ only in how bc7enc_encode builds the 8-bit image it hands to the *)
(* encoder.  The encoder itself (bc7enc/rdo_bc_encoder.h) and the image    *)
(* container (bc7enc/utils.h) are not part of the sources; they are        *)
(* modelled from the interface the specification gives for them.           *)
(***************************************************************************)
EXTENDS Integers, Sequences, FiniteSets, TLC

VARIABLES
    variant,   \* which translation unit is linked: "u8" (dds.cpp) or "f32" (bindings.cpp)
    nanByte,   \* what this build stores when a NaN float is converted to uint8_t
    live,      \* TRUE between bc7enc_init and bc7enc_deinit
    enc,       \* the rdo_bc_encoder object: its block pointer and block size
    heap,      \* the block buffers currently allocated: pointer -> buffer
    params,    \* params->m_perceptual as the caller sees it after the last encode
    canon,     \* the utils::image_u8 handed to encoder->init by the last encode
    lastEnc,   \* the most recent bc7enc_encode call: arguments and outcome
    call,      \* the most recent call of any entry point and what it returned
    session,   \* "Empty" until an encode returns true, then "Encoded", and "Reencoded"
               \* once an encode has returned true on an Encoded session; "Destroyed"
               \* after deinit
    okSize     \* the block size for the width and height of the session's most recent
               \* encode that returned true; 0 before any

vars == <<variant, nanByte, live, enc, heap, params, canon, lastEnc, call, session, okSize>>

----------------------------------------------------------------------------
\* Bounds of the model.

\* widths and heights of the session runs are 0..MaxDim
MaxDim == 5
\* input buffers are the patterns 0..MaxSeed
MaxSeed == 2

Dims == 0..MaxDim
Seeds == 0..MaxSeed

----------------------------------------------------------------------------
\* float samples.  A float is either NaN or a number, held in units of
\* 1/Unit; every number the model meets (the input grid of eighths, the
\* tabulated powers, the products by 255) is exact in these units.

Unit == 65536
Channels == 4

NaN == [nan |-> TRUE, v |-> 0]
F(v) == [nan |-> FALSE, v |-> v]

\* the input samples, in eighths: -0.5, 0.5, 1.5, 0.5, 0.0, 1.0, 0.125; their
\* number is odd, so that every sample meets every channel
SampleEighths == <<-4, 4, 12, 4, 0, 8, 1>>

\* float pixels[i], i = 0 .. width*height*4 - 1, of input buffer `seed`
InF32(seed, i) == F(SampleEighths[((seed + i) % Len(SampleEighths)) + 1] * (Unit \div 8))

\* uint8_t pixels[i] of input buffer `seed`
ByteValues == <<0, 255, 128, 1, 127, 77, 254>>
InU8(seed, i) == ByteValues[((seed + i) % Len(ByteValues)) + 1]

\* powf(n/8, 1.0f/2.2f) for n = 0..16, rounded down to 1/Unit
GammaTable ==
    <<0, 25467, 34899, 41962, 47824, 52929, 57502, 61676, 65536,
      69140, 72532, 75743, 78799, 81718, 84518, 87211, 89807>>

\* pow(sample, 1.0f / 2.2f): NaN for NaN and for a negative base
PowGamma(x) ==
    IF x.nan \/ x.v < 0 THEN NaN
    ELSE F(GammaTable[(x.v \div (Unit \div 8)) + 1])

\* GammaChannel gone wrong: the gamma curve on every channel, alpha included
GammaEveryChannel(perceptual, channel) == perceptual

\* params->m_perceptual && channel != 3
GammaChannel(perceptual, channel) == perceptual /\ channel # 3

\* Scale gone wrong: no rounding offset
ScaleNoOffset(x) == IF x.nan THEN NaN ELSE F(x.v * 255)

\* sample * 255.0f + 0.5f
Scale(x) == IF x.nan THEN NaN ELSE F(x.v * 255 + Unit \div 2)

\* if (sample < 0.0f) sample = 0.0f; else if (sample > 255.0f) sample = 255.0f;
\* both comparisons are false for NaN, which passes through
Clamp(x) ==
    IF x.nan THEN x
    ELSE IF x.v < 0 THEN F(0)
    ELSE IF x.v > 255 * Unit THEN F(255 * Unit)
    ELSE x

\* the float each channel holds when it is stored (lines 39-46)
Prepared(x, perceptual, channel) ==
    Clamp(Scale(IF GammaChannel(perceptual, channel) THEN PowGamma(x) ELSE x))

\* pixel.m_c[channel] = sample: the conversion float -> uint8_t truncates; it
\* is undefined for NaN, where the build's outcome nb is stored
StoreByte(x, nb) == IF x.nan THEN nb ELSE x.v \div Unit

----------------------------------------------------------------------------
\* 32-bit unsigned arithmetic.  The values are below 2^31, so that the limbs,
\* not the products, carry the width.

Half == 65536

\* (a * b) mod 2^32 for uint32_t a, b, by 16-bit limbs
MulU32(a, b) ==
    LET al == a % Half
        ah == a \div Half
        bl == b % Half
        bh == b \div Half
        t  == al * (bl \div 256)
        u  == (t % 256) * 256 + al * (bl % 256)
        lo == u % Half
        c  == (t \div 256) + (u \div Half)
        hi == ((c % Half) + ((ah * bl) % Half) + ((al * bh) % Half)) % Half
    IN  hi * Half + lo

\* width * height, both uint32_t (dds.cpp line 27)
PixelCount(width, height) == MulU32(width, height)

\* width * height * sizeof(uint32_t): the size_t operand widens only the
\* second product
CopyCount(width, height) == PixelCount(width, height) * Channels

----------------------------------------------------------------------------
\* the bytes a build may store for a NaN sample
NanBytes == {0, 255}

\* The image bc7enc_encode builds.  pixels is the flat RGBA byte sequence;
\* undef is the set of positions where a NaN reached the byte store.

\* dds.cpp lines 25-27: img.init, then memcpy of CopyCount bytes
ImageU8(width, height, seed) ==
    [width  |-> width,
     height |-> height,
     pixels |-> [k \in 1..CopyCount(width, height) |-> InU8(seed, k - 1)],
     undef  |-> {}]

\* bindings.cpp lines 33-50: the loop over (size_t)width * (size_t)height
\* pixels and the 4 channels of each
ImageF32(width, height, seed, perceptual, nb) ==
    LET n == width * height * Channels
        prep(k) == Prepared(InF32(seed, k - 1), perceptual, (k - 1) % Channels)
    IN  [width  |-> width,
         height |-> height,
         pixels |-> [k \in 1..n |-> StoreByte(prep(k), nb)],
         undef  |-> {k \in 1..n : prep(k).nan}]

\* the images of the bounded inputs, computed once
F32Images ==
    [width \in Dims, height \in Dims, seed \in Seeds, perceptual \in BOOLEAN, nb \in NanBytes |->
        ImageF32(width, height, seed, perceptual, nb)]

U8Images ==
    [width \in Dims, height \in Dims, seed \in Seeds |-> ImageU8(width, height, seed)]

NoImage == [width |-> 0, height |-> 0, pixels |-> <<>>, undef |-> {}]

\* NormalizeFlag gone wrong: the flag read after encoder->init has run
NormalizeFlagAfterInit(atEntry, afterInit) == afterInit

\* bindings.cpp reads params->m_perceptual in the loop of lines 36-50, which
\* ends before encoder->init(img, *params) of line 53 is reached
NormalizeFlag(atEntry, afterInit) == atEntry

----------------------------------------------------------------------------
\* The block compressor, rdo_bc::rdo_bc_encoder, from its interface: init
\* takes the image and the parameters, may rewrite the parameters, and
\* returns false on failure; encode returns false on failure; the two
\* accessors give the block buffer and its size in bytes.

NULL == 0
BlockBytes == 16

\* 16 * ceil(width/4) * ceil(height/4)
BlockSize(width, height) == BlockBytes * ((width + 3) \div 4) * ((height + 3) \div 4)

FreshEncoder == [blocks |-> NULL, size |-> 0]

Release(hp, ptr) == [i \in (DOMAIN hp) \ {ptr} |-> hp[i]]

NewPtr(hp) == CHOOSE i \in 1..(Cardinality(DOMAIN hp) + 1) : i \notin DOMAIN hp

\* init discards what the encoder held; on success it holds a block buffer
\* for the new image, not yet encoded
compressorInit(e, hp, img, ok) ==
    LET freed == Release(hp, e.blocks)
        ptr   == NewPtr(freed)
        size  == BlockSize(img.width, img.height)
        buf   == [len |-> size, image |-> img, complete |-> FALSE]
    IN  IF ok
        THEN [enc  |-> [blocks |-> ptr, size |-> size],
              heap |-> [i \in (DOMAIN freed) \cup {ptr} |-> IF i = ptr THEN buf ELSE freed[i]]]
        ELSE [enc |-> FreshEncoder, heap |-> freed]

\* encode fills the buffer; a failed pass leaves it partly written
compressorEncode(e, hp, ok) ==
    IF ok THEN [hp EXCEPT ![e.blocks].complete = TRUE] ELSE hp

compressorGetBlocks(e) == e.blocks

compressorGetTotalBlockSize(e) == e.size

\* ~rdo_bc_encoder releases the block buffer
compressorDestroy(e, hp) == Release(hp, e.blocks)

----------------------------------------------------------------------------
\* The entry points.

\* the states of a session on which some encode has succeeded
EncodedStates == {"Encoded", "Reencoded"}

NoEncode ==
    [w |-> 0, h |-> 0, seed |-> 0, perceptual |-> FALSE, ok |-> FALSE,
     initCalled |-> FALSE, reencode |-> FALSE, kept |-> TRUE, done |-> FALSE]

Returned(op, ok, ptr, size) ==
    [op |-> op, ok |-> ok, ptr |-> ptr, size |-> size, err |-> "none"]

\* delete encoder
DeleteEncoder(e, hp) == compressorDestroy(e, hp)

\* return (uint8_t *)encoder->get_blocks();
GetBlocks(e) == compressorGetBlocks(e)

\* GetTotalBlocksSizeInBytes gone wrong: the size of the source image
GetSourceSizeInBytes(e, hp) ==
    IF e.blocks \in DOMAIN hp THEN Len(hp[e.blocks].image.pixels) ELSE 0

\* return encoder->get_total_blocks_size_in_bytes();
GetTotalBlocksSizeInBytes(e, hp) == compressorGetTotalBlockSize(e)

Init ==
    /\ variant \in {"u8", "f32"}
    /\ nanByte \in (IF variant = "f32" THEN NanBytes ELSE {0})
    /\ live = TRUE
    /\ enc = FreshEncoder
    /\ heap = <<>>
    /\ params = FALSE
    /\ canon = NoImage
    /\ lastEnc = NoEncode
    /\ call = Returned("init", TRUE, NULL, 0)
    /\ session = "Empty"
    /\ okSize = 0

\* return new rdo_bc::rdo_bc_encoder();
bc7enc_init ==
    /\ ~live
    /\ live' = TRUE
    /\ enc' = FreshEncoder
    /\ lastEnc' = NoEncode
    /\ canon' = NoImage
    /\ call' = Returned("init", TRUE, NULL, 0)
    /\ session' = "Empty"
    /\ okSize' = 0
    /\ UNCHANGED <<variant, nanByte, heap, params>>

bc7enc_deinit ==
    /\ live
    /\ live' = FALSE
    /\ heap' = DeleteEncoder(enc, heap)
    /\ enc' = FreshEncoder
    /\ call' = Returned("deinit", TRUE, NULL, 0)
    /\ session' = "Destroyed"
    /\ lastEnc' = NoEncode
    /\ canon' = NoImage
    /\ okSize' = 0
    /\ UNCHANGED <<variant, nanByte, params>>

\* bc7enc_encode(encoder, params, width, height, pixels), with p the value of
\* params->m_perceptual at the call; q, initOk and encOk are the compressor's
\* choices: the flag it leaves in *params, and what init and encode return
bc7enc_encode(width, height, seed, p, q, initOk, encOk) ==
    /\ live
    /\ LET img    == IF variant = "f32"
                     THEN F32Images[width, height, seed, NormalizeFlag(p, q), nanByte]
                     ELSE IF width \in Dims /\ height \in Dims
                          THEN U8Images[width, height, seed]
                          ELSE ImageU8(width, height, seed)
           inited == compressorInit(enc, heap, img, initOk)
           heap2  == IF initOk
                     THEN compressorEncode(inited.enc, inited.heap, encOk)
                     ELSE inited.heap
           ret    == initOk /\ encOk
       IN  /\ canon' = img
           /\ params' = q
           /\ enc' = inited.enc
           /\ heap' = heap2
           /\ lastEnc' = [w |-> width, h |-> height, seed |-> seed, perceptual |-> p,
                          ok |-> ret, initCalled |-> TRUE,
                          reencode |-> (session \in EncodedStates),
                          kept |-> (inited.enc = enc /\ heap2 = heap), done |-> TRUE]
           /\ call' = Returned("encode", ret, NULL, 0)
           /\ session' = IF ~ret THEN session
                         ELSE IF session \in EncodedStates THEN "Reencoded"
                         ELSE "Encoded"
           /\ okSize' = IF ret THEN BlockSize(width, height) ELSE okSize
    /\ UNCHANGED <<variant, nanByte, live>>

bc7enc_get_blocks ==
    /\ live
    /\ call' = Returned("getBlocks", TRUE, GetBlocks(enc), 0)
    /\ UNCHANGED <<variant, nanByte, live, enc, heap, params, canon, lastEnc, session, okSize>>

bc7enc_get_total_blocks_size_in_bytes ==
    /\ live
    /\ call' = Returned("getTotal", TRUE, NULL, GetTotalBlocksSizeInBytes(enc, heap))
    /\ UNCHANGED <<variant, nanByte, live, enc, heap, params, canon, lastEnc, session, okSize>>

\* what encoder->init and encoder->encode return: init fails, init
\* succeeds and encode fails, both succeed
Outcomes == {<<FALSE, FALSE>>, <<TRUE, FALSE>>, <<TRUE, TRUE>>}

\* the one input buffer of the session runs
FirstSeed == {0}

\* in the session runs the caller asks for perceptual encoding and the
\* compressor leaves the flag cleared
Asked == {TRUE}
Cleared == {FALSE}

\* A session over its whole life: any number of encodes, of every size.
Next ==
    \/ bc7enc_init
    \/ bc7enc_deinit
    \/ \E width \in Dims, height \in Dims, seed \in FirstSeed, p \in Asked, q \in Cleared,
          o \in Outcomes :
          bc7enc_encode(width, height, seed, p, q, o[1], o[2])
    \/ bc7enc_get_blocks
    \/ bc7enc_get_total_blocks_size_in_bytes

Spec == Init /\ [][Next]_vars

\* widths and heights whose product does not fit 32 bits, with the few
\* pixels that (width * height) mod 2^32 leaves
WidePairs ==
    {<<65536, 65536>>, <<1073741825, 4>>, <<4, 1073741825>>, <<32768, 131072>>}

\* One encode per session, over every input buffer: the image each variant
\* builds.  The compressor refuses the wide images.
NextOnce ==
    \/ bc7enc_init
    \/ bc7enc_deinit
    \/ /\ ~lastEnc.done
       /\ \E width \in Dims, height \in Dims, seed \in Seeds, p \in BOOLEAN, q \in BOOLEAN,
             o \in Outcomes :
             bc7enc_encode(width, height, seed, p, q, o[1], o[2])
    \/ /\ ~lastEnc.done
       /\ variant = "u8"
       /\ \E d \in WidePairs, seed \in Seeds, p \in BOOLEAN, q \in BOOLEAN :
             bc7enc_encode(d[1], d[2], seed, p, q, FALSE, FALSE)
    \/ bc7enc_get_blocks
    \/ bc7enc_get_total_blocks_size_in_bytes

SpecOnce == Init /\ [][NextOnce]_vars

----------------------------------------------------------------------------
\* Properties of the image built from float pixels (bindings.cpp).

\* the last call that reached the encoder was an encode of float pixels
EncodedF32 == lastEnc.done /\ variant = "f32"

\* input sample k (1-based) of the last encode, in units of 1/Unit
SampleOf(k) == InF32(lastEnc.seed, k - 1).v

Positions == 1..(lastEnc.w * lastEnc.h * Channels)
AlphaPositions == {k \in Positions : (k - 1) % Channels = 3}

\* the image the last encode's input gives under perceptual flag `flag`
ImageUnder(flag) == F32Images[lastEnc.w, lastEnc.h, lastEnc.seed, flag, nanByte]

\* C1: the image handed to the compressor by an encode of float pixels is
\* the one normalization gives for the value params.perceptual had when
\* encode was called, whatever value the compressor's init left in the flag.
C1_FlagReadBeforeInit ==
    EncodedF32 => canon = ImageUnder(lastEnc.perceptual)

\* an encode whose init overwrote the flag, on an image where the flag matters
C1_Witness ==
    /\ EncodedF32
    /\ call.op = "encode"
    /\ params # lastEnc.perceptual
    /\ ImageUnder(params) # ImageUnder(lastEnc.perceptual)
    /\ canon = ImageUnder(lastEnc.perceptual)

\* C2: every alpha byte of the image built under one value of the
\* perceptual flag equals the alpha byte the other value gives on the same
\* input; the gamma curve touches channels 0..2 only.
C2_AlphaIndependentOfFlag ==
    EncodedF32 =>
        \A k \in AlphaPositions :
            canon.pixels[k] = ImageUnder(~lastEnc.perceptual).pixels[k]

\* a perceptual encode whose colour bytes differ from the linear run's,
\* with an alpha sample of 0.5, which the gamma curve would move
C2_Witness ==
    /\ EncodedF32
    /\ lastEnc.perceptual
    /\ \E k \in Positions \ AlphaPositions :
          canon.pixels[k] # ImageUnder(FALSE).pixels[k]
    /\ \E k \in AlphaPositions :
          /\ SampleOf(k) = Unit \div 2
          /\ canon.pixels[k] = 128

\* C3: every sample s <= 0 is stored as byte 0, and no NaN reaches the byte
\* store.
C3_NonPositiveGivesZero ==
    EncodedF32 =>
        /\ canon.undef = {}
        /\ \A k \in Positions : SampleOf(k) <= 0 => canon.pixels[k] = 0

\* C4: with perceptual = false every byte is the integer part of
\* clamp(s * 255 + 0.5, 0, 255): within 0..255, 255 above 1.0, 0 for 0.0,
\* 255 for 1.0, and a sample halfway between two levels goes to the upper.
C4_LinearQuantization ==
    (EncodedF32 /\ ~lastEnc.perceptual) =>
        \A k \in Positions :
            LET s == SampleOf(k)
                y == s * 255 + Unit \div 2
                b == canon.pixels[k]
            IN  /\ b \in 0..255
                /\ y < 0 => b = 0
                /\ y > 255 * Unit => b = 255
                /\ (0 <= y /\ y <= 255 * Unit) => (b * Unit <= y /\ y < (b + 1) * Unit)
                /\ s > Unit => b = 255
                /\ s = 0 => b = 0
                /\ s = Unit => b = 255
                /\ ((s * 255) % Unit = Unit \div 2 /\ 0 <= y /\ y <= 255 * Unit)
                      => b * Unit = y

\* a linear encode holding 0.5 (halfway between 127 and 128), a sample
\* above 1.0 and a negative sample
C4_Witness ==
    /\ EncodedF32
    /\ ~lastEnc.perceptual
    /\ \E k \in Positions : SampleOf(k) = Unit \div 2 /\ canon.pixels[k] = 128
    /\ \E k \in Positions : SampleOf(k) > Unit /\ canon.pixels[k] = 255
    /\ \E k \in Positions : SampleOf(k) < 0 /\ canon.pixels[k] = 0
    /\ \E k \in Positions : SampleOf(k) = Unit \div 8 /\ canon.pixels[k] = 32

----------------------------------------------------------------------------
\* Properties of the session (both variants).

Getters == {"getBlocks", "getTotal"}

\* C5: on a session on which no encode has succeeded, getBlocks and
\* getTotalBlockSizeInBytes fail with NotEncoded.
C5_EmptySessionFails ==
    (call.op \in Getters /\ session = "Empty") => call.err = "NotEncoded"

\* the last encode was given a positive width and height
ValidDims == lastEnc.w > 0 /\ lastEnc.h > 0

\* C6: after a failed encode (of positive width and height) no block buffer
\* is reachable through the session: getBlocks gives no live buffer and the
\* size is zero.
C6_FailedEncodeHidesBlocks ==
    (lastEnc.done /\ ~lastEnc.ok /\ ValidDims) =>
        /\ call.op = "getBlocks" => call.ptr \notin DOMAIN heap
        /\ call.op = "getTotal" => call.size = 0

\* the least c with 4 * c >= n
Ceil4(n) == CHOOSE c \in 0..n : 4 * c >= n /\ 4 * (c - 1) < n

C8_ReencodeReplacesBlocks ==
    /\ Cardinality(DOMAIN heap) <= 1
    /\ session = "Destroyed" => DOMAIN heap = {}
    /\ (session = "Reencoded" /\ lastEnc.ok) =>
          /\ call.op = "getTotal" =>
                /\ call.size = okSize
                /\ call.size = 16 * Ceil4(lastEnc.w) * Ceil4(lastEnc.h)
          /\ call.op = "getBlocks" =>
                /\ call.ptr \in DOMAIN heap
                /\ heap[call.ptr].complete
                /\ heap[call.ptr].len = okSize
                /\ heap[call.ptr].image = canon
                /\ canon.width = lastEnc.w /\ canon.height = lastEnc.h
    /\ (session = "Reencoded" /\ ~lastEnc.ok /\ ValidDims /\ okSize > 0) =>
          /\ call.op = "getTotal" => call.size \in {0, okSize}
          /\ (call.op = "getBlocks" /\ call.ptr \in DOMAIN heap) =>
                /\ heap[call.ptr].complete
                /\ heap[call.ptr].len = okSize

\* the part of C8 that holds: one buffer at most, none after destroy, and
\* the latest encode's size and blocks whenever that encode succeeded
C8_HoldsUntilFailure ==
    /\ Cardinality(DOMAIN heap) <= 1
    /\ session = "Destroyed" => DOMAIN heap = {}
    /\ (session = "Reencoded" /\ lastEnc.ok) =>
          /\ call.op = "getTotal" => call.size = okSize
          /\ call.op = "getBlocks" =>
                /\ call.ptr \in DOMAIN heap
                /\ heap[call.ptr].complete
                /\ heap[call.ptr].image = canon

\* C9: encode with width = 0 or height = 0 returns failure, never calls the
\* compressor's init, and leaves the session as it was.
C9_ZeroAreaRejected ==
    (lastEnc.done /\ (lastEnc.w = 0 \/ lastEnc.h = 0)) =>
        /\ ~lastEnc.ok
        /\ ~lastEnc.initCalled
        /\ lastEnc.kept

----------------------------------------------------------------------------
\* The image built from byte pixels (dds.cpp).

\* C10: for width > 0 and height > 0 the image handed to the compressor
\* holds exactly width * height * 4 bytes, each equal to the input byte.
C10_VerbatimCopy ==
    (lastEnc.done /\ variant = "u8" /\ lastEnc.w > 0 /\ lastEnc.h > 0) =>
        LET n == Len(canon.pixels)
        IN  /\ n % Channels = 0
            /\ (n \div Channels) % lastEnc.w = 0
            /\ (n \div Channels) \div lastEnc.w = lastEnc.h
            /\ \A k \in 1..n : canon.pixels[k] = InU8(lastEnc.seed, k - 1)

====
